---------------------------- MODULE Spec2Model ----------------------------
(***************************************************************************)
(* Model of the message-template validation engine of the WhatsApp Cloud   *)
(* API MCP server (src/mcp_server/validation.py) and of the two template   *)
(* creation handlers that call it (src/mcp_server/template_handler.py).    *)
(*                                                                         *)
(* A text is a sequence of Unicode code points (naturals).  A Python       *)
(* Optional is a set with at most one element: None is {} and a present    *)
(* value v is {v}.  A dict key that the code reads with .get(key, default) *)
(* is a record field holding that default when the key is absent.          *)
(***************************************************************************)
EXTENDS Integers, Sequences, FiniteSets, TLC

VARIABLES
    tool,           \* name of the operation called
    args,           \* the arguments it is called with
    pc,             \* called: the call has not run yet; returned: it has
    template_data,  \* the dict the call handed to validateCompleteTemplate
    result,         \* the ValidationResult the call computed last
    count,          \* the integer a counting call returned
    response,       \* the dict the call returned to its caller
    posted          \* the payloads the call POSTed to the provider

vars == <<tool, args, pc, template_data, result, count, response, posted>>

---------------------------------------------------------------------------
(* Text: code points                                                       *)

\* The printable ASCII characters in code-point order: 32 (space) to 95, and
\* 97 to 126 (96, the backquote, cannot be written in a string here).
AsciiLow == " !\"#$%&'()*+,-./0123456789:;<=>?@ABCDEFGHIJKLMNOPQRSTUVWXYZ[\\]^_"
AsciiHigh == "abcdefghijklmnopqrstuvwxyz{|}~"

\* Code point of a one-character string.
Ord(ch) ==
    IF ch = "\n" THEN 10
    ELSE IF \E i \in 1..Len(AsciiLow) : SubSeq(AsciiLow, i, i) = ch
         THEN 31 + (CHOOSE i \in 1..Len(AsciiLow) : SubSeq(AsciiLow, i, i) = ch)
         ELSE 96 + (CHOOSE i \in 1..Len(AsciiHigh) : SubSeq(AsciiHigh, i, i) = ch)

\* The text (code-point sequence) of a string literal.
Str(s) == [i \in 1..Len(s) |-> Ord(SubSeq(s, i, i))]

\* n copies of text t.
Rep(t, n) == [i \in 1..(n * Len(t)) |-> t[((i - 1) % Len(t)) + 1]]

None == {}
Some(v) == {v}
The(o) == CHOOSE v \in o : TRUE

\* str.startswith(prefix)
startswith(text, prefix) ==
    /\ Len(text) >= Len(prefix)
    /\ SubSeq(text, 1, Len(prefix)) = prefix

\* str.endswith(suffix)
endswith(text, suffix) ==
    /\ Len(text) >= Len(suffix)
    /\ SubSeq(text, Len(text) - Len(suffix) + 1, Len(text)) = suffix

\* str.upper() and str.lower() on ASCII letters
upper(text) == [i \in 1..Len(text) |->
                  IF text[i] \in 97..122 THEN text[i] - 32 ELSE text[i]]
lower(text) == [i \in 1..Len(text) |->
                  IF text[i] \in 65..90 THEN text[i] + 32 ELSE text[i]]

\* needle in text (substring test)
contains(text, needle) ==
    \E i \in 1..(Len(text) - Len(needle) + 1) :
        SubSeq(text, i, i + Len(needle) - 1) = needle

\* re.match(r'^...$', text): the dollar matches at the end of the text and also
\* just before a line break that ends it, so the part before the dollar has to
\* match either the whole text or the text without its final line break.
DollarBodies(text) ==
    {text} \cup (IF Len(text) > 0 /\ text[Len(text)] = 10
                 THEN {SubSeq(text, 1, Len(text) - 1)} ELSE {})

\* Positions of code point c in text.
Occ(text, c) == {i \in 1..Len(text) : text[i] = c}

\* The class \d of a str pattern: the decimal digits of every script, of which
\* the texts here use the ASCII digits and the Arabic-Indic digits
\* (U+0660-U+0669).
IsDigit(c) == c \in 48..57 \/ c \in 1632..1641

\* The value int() gives a decimal digit.
DigitValue(c) == IF c \in 48..57 THEN c - 48 ELSE c - 1632

---------------------------------------------------------------------------
(* ValidationResult and error messages                                     *)

\* An error message: the fixed wording of the f-string (msg) with the number
\* (num) and the text (txt) interpolated into it; 0 and <<>> when it has none.
Err(msg, num, txt) == [msg |-> msg, num |-> num, txt |-> txt]

\* ValidationResult(isValid, error=None, errors=None)
ValidationResult(isValid, error, errors) ==
    [isValid |-> isValid, error |-> error, errors |-> errors]
Valid == ValidationResult(TRUE, None, None)
Fail(e) == ValidationResult(FALSE, Some(e), None)

---------------------------------------------------------------------------
(* Lexical rule checks                                                     *)

limits == [body |-> 550, header |-> 60, footer |-> 60, button |-> 20]

\* Variant whose limit is exclusive: a text of exactly the limit fails.
validateCharacterLimits_exclusive(component, text) ==
    IF component \notin DOMAIN limits
    THEN Fail(Err("Unknown component type", 0, <<>>))
    ELSE IF Len(text) >= limits[component]
         THEN Fail(Err(component \o " exceeds character limit", Len(text), <<>>))
         ELSE Valid

validateCharacterLimits(component, text) ==
    IF component \notin DOMAIN limits
    THEN Fail(Err("Unknown component type", 0, <<>>))
    ELSE IF Len(text) > limits[component]
         THEN Fail(Err(component \o " exceeds character limit", Len(text), <<>>))
         ELSE Valid

\* The character class of emojiRegex.
IsEmoji(c) ==
    \/ c \in 128512..128591      \* U+1F600-U+1F64F
    \/ c \in 127744..128511      \* U+1F300-U+1F5FF
    \/ c \in 128640..128767      \* U+1F680-U+1F6FF
    \/ c \in 127456..127487      \* U+1F1E0-U+1F1FF
    \/ c \in 9986..10160         \* U+2702-U+27B0
    \/ c \in 9410..127569        \* U+24C2-U+1F251

\* len(emojiRegex.findall(text)): the pattern is the class followed by a plus, so
\* findall returns one match per maximal run of class characters; a run starts
\* at a class character that has no class character right before it.
countEmojis(text) ==
    Cardinality({i \in 1..Len(text) :
                    /\ IsEmoji(text[i])
                    /\ (i = 1 \/ ~IsEmoji(text[i - 1]))})

RECURSIVE SumEmojis(_)
SumEmojis(texts) ==
    IF texts = <<>> THEN 0
    ELSE countEmojis(Head(texts)) + SumEmojis(Tail(texts))

\* Variant that applies the limit to each field on its own.
validateEmojiLimit_perField(allTemplateText) ==
    IF \E i \in 1..Len(allTemplateText) : countEmojis(allTemplateText[i]) > 10
    THEN Fail(Err("Template has too many emojis, maximum 10 allowed",
                  SumEmojis(allTemplateText), <<>>))
    ELSE Valid

validateEmojiLimit(allTemplateText) ==
    LET totalEmojis == SumEmojis(allTemplateText) IN
    IF totalEmojis > 10
    THEN Fail(Err("Template has too many emojis, maximum 10 allowed", totalEmojis, <<>>))
    ELSE Valid

\* pattern.search(text) for  m [^m]* m [^m]* m : three occurrences of the marker m
\* with no marker between neighbours.
TriplePattern(text, m) ==
    LET occ == Occ(text, m) IN
    \E i, j, k \in occ :
        /\ i < j /\ j < k
        /\ \A x \in occ : ~(i < x /\ x < j) /\ ~(j < x /\ x < k)

\* pattern.search(text) for  m [^m]+ m : two occurrences of the marker m with at
\* least one character, and no marker, between them.
PairPattern(text, m) ==
    LET occ == Occ(text, m) IN
    \E i, j \in occ :
        /\ i + 1 < j
        /\ \A x \in occ : ~(i < x /\ x < j)

\* Variant that reports only the first problem it finds.
validateFormatting_firstOnly(text) ==
    LET e1 == IF contains(text, <<10, 10>>)
              THEN <<Err("Consecutive line breaks not allowed", 0, <<>>)>> ELSE <<>>
        e2 == IF TriplePattern(text, 42) /\ ~PairPattern(text, 42)
              THEN <<Err("Invalid bold formatting", 0, <<>>)>> ELSE <<>>
        e3 == IF TriplePattern(text, 95) /\ ~PairPattern(text, 95)
              THEN <<Err("Invalid italic formatting", 0, <<>>)>> ELSE <<>>
        e4 == IF TriplePattern(text, 126) /\ ~PairPattern(text, 126)
              THEN <<Err("Invalid strikethrough formatting", 0, <<>>)>> ELSE <<>>
        errors == IF e1 # <<>> THEN e1 ELSE IF e2 # <<>> THEN e2
                  ELSE IF e3 # <<>> THEN e3 ELSE e4
    IN  ValidationResult(Len(errors) = 0, None,
                         IF errors # <<>> THEN Some(errors) ELSE None)

validateFormatting(text) ==
    LET e1 == IF contains(text, <<10, 10>>)
              THEN <<Err("Consecutive line breaks not allowed", 0, <<>>)>> ELSE <<>>
        e2 == IF TriplePattern(text, 42) /\ ~PairPattern(text, 42)
              THEN <<Err("Invalid bold formatting", 0, <<>>)>> ELSE <<>>
        e3 == IF TriplePattern(text, 95) /\ ~PairPattern(text, 95)
              THEN <<Err("Invalid italic formatting", 0, <<>>)>> ELSE <<>>
        e4 == IF TriplePattern(text, 126) /\ ~PairPattern(text, 126)
              THEN <<Err("Invalid strikethrough formatting", 0, <<>>)>> ELSE <<>>
        errors == e1 \o e2 \o e3 \o e4
    IN  ValidationResult(Len(errors) = 0, None,
                         IF errors # <<>> THEN Some(errors) ELSE None)

---------------------------------------------------------------------------
(* Button and link checks                                                  *)

\* A button dict: type, text, url, phone_number (an absent key holds the empty
\* text, which the code treats like a missing value).
Button(type, text, url, phone_number) ==
    [type |-> type, text |-> text, url |-> url, phone_number |-> phone_number]

\* re.search(r'[*_~`{}]', text)
HasFormattingChar(text) ==
    \E i \in 1..Len(text) : text[i] \in {42, 95, 126, 96, 123, 125}

\* Variant without the line-break check.
RECURSIVE validateButtonText_noLineBreakCheck(_)
validateButtonText_noLineBreakCheck(buttons) ==
    IF buttons = <<>> THEN Valid
    ELSE LET text == Head(buttons).text IN
         IF text = <<>> THEN validateButtonText_noLineBreakCheck(Tail(buttons))
         ELSE IF countEmojis(text) > 0
              THEN Fail(Err("Button contains emojis", 0, text))
         ELSE IF HasFormattingChar(text)
              THEN Fail(Err("Button contains formatting characters", 0, text))
         ELSE validateButtonText_noLineBreakCheck(Tail(buttons))

RECURSIVE validateButtonText(_)
validateButtonText(buttons) ==
    IF buttons = <<>> THEN Valid
    ELSE LET text == Head(buttons).text IN
         IF text = <<>> THEN validateButtonText(Tail(buttons))
         ELSE IF countEmojis(text) > 0
              THEN Fail(Err("Button contains emojis", 0, text))
         ELSE IF HasFormattingChar(text)
              THEN Fail(Err("Button contains formatting characters", 0, text))
         ELSE IF contains(text, <<10>>)
              THEN Fail(Err("Button contains line breaks", 0, text))
         ELSE validateButtonText(Tail(buttons))

HttpsPrefix == Str("https://")

\* Variant that reports the last offending button instead of the first.
RECURSIVE validateUrls_lastOffender(_)
validateUrls_lastOffender(buttons) ==
    IF buttons = <<>> THEN Valid
    ELSE LET button == Head(buttons)
             url == button.url
             rest == validateUrls_lastOffender(Tail(buttons))
         IN  IF ~rest.isValid THEN rest
             ELSE IF button.type = "URL" /\ url # <<>>
             THEN IF ~startswith(url, HttpsPrefix)
                  THEN Fail(Err("URL must use HTTPS", 0, url))
                  ELSE IF Len(url) > 2000
                       THEN Fail(Err("URL exceeds 2000 character limit", Len(url), <<>>))
                       ELSE Valid
             ELSE Valid

RECURSIVE validateUrls(_)
validateUrls(buttons) ==
    IF buttons = <<>> THEN Valid
    ELSE LET button == Head(buttons)
             url == button.url
         IN  IF button.type = "URL" /\ url # <<>>
             THEN IF ~startswith(url, HttpsPrefix)
                  THEN Fail(Err("URL must use HTTPS", 0, url))
                  ELSE IF Len(url) > 2000
                       THEN Fail(Err("URL exceeds 2000 character limit", Len(url), <<>>))
                       ELSE validateUrls(Tail(buttons))
             ELSE validateUrls(Tail(buttons))

\* The part of phoneRegex before the dollar: a plus sign and 10 to 15 digits.
PhoneBody(text) ==
    /\ Len(text) \in 11..16
    /\ text[1] = 43
    /\ \A i \in 2..Len(text) : IsDigit(text[i])

RECURSIVE validatePhoneNumbers(_)
validatePhoneNumbers(buttons) ==
    IF buttons = <<>> THEN Valid
    ELSE LET button == Head(buttons)
             phone == button.phone_number
         IN  IF button.type = "PHONE_NUMBER" /\ phone # <<>>
                /\ ~(\E b \in DollarBodies(phone) : PhoneBody(b))
             THEN Fail(Err("Phone number must be international format with +", 0, phone))
             ELSE validatePhoneNumbers(Tail(buttons))

validCombinations ==
    << <<"QUICK_REPLY">>, <<"URL">>, <<"PHONE_NUMBER">>,
       <<"QUICK_REPLY", "URL">>, <<"QUICK_REPLY", "PHONE_NUMBER">> >>

validateButtonCombinations(templateType, buttons) ==
    LET buttonTypes == [i \in 1..Len(buttons) |-> buttons[i].type]
        isValid ==
            \E c \in 1..Len(validCombinations) :
                LET combo == validCombinations[c] IN
                /\ Len(combo) = Len(buttonTypes)
                /\ \A k \in 1..Len(combo) :
                      \E i \in 1..Len(buttonTypes) : buttonTypes[i] = combo[k]
    IN  IF templateType = "CAROUSEL" /\ ~isValid
        THEN Fail(Err("Invalid carousel button combination", 0, <<>>))
        ELSE Valid

---------------------------------------------------------------------------
(* Components, media headers, structure, metadata                          *)

\* A component dict.  type, format, text and buttons are the keys the validator
\* reads; header_url is example.header_url (a list of texts); index and body
\* (its text) are further keys of a CAROUSEL component, whose header is an
\* Optional dict.
Component(type, format, text, header_url, buttons) ==
    [type |-> type, format |-> format, text |-> text, header_url |-> header_url,
     buttons |-> buttons, index |-> 0, body |-> <<>>, header |-> None]

validFormats ==
    [IMAGE |-> <<Str(".jpg"), Str(".jpeg"), Str(".png")>>,
     VIDEO |-> <<Str(".mp4")>>,
     DOCUMENT |-> <<Str(".pdf")>>]

\* header is an Optional component dict.
validateMediaHeaders(header) ==
    IF header = None \/ The(header).format = "TEXT" THEN Valid
    ELSE LET h == The(header) IN
         IF h.format # "" /\ h.header_url # <<>>
         THEN LET url == h.header_url[1]
                  validExtensions == IF h.format \in DOMAIN validFormats
                                     THEN validFormats[h.format] ELSE <<>>
                  hasValidExtension ==
                      \E e \in 1..Len(validExtensions) :
                          endswith(lower(url), validExtensions[e])
              IN  IF ~startswith(url, HttpsPrefix)
                  THEN Fail(Err("Media URLs must use HTTPS", 0, <<>>))
                  ELSE IF ~hasValidExtension
                       THEN Fail(Err(h.format \o " header must end with a valid extension", 0, <<>>))
                       ELSE Valid
         ELSE Valid

\* componentTypes.count(comp_type)
CountType(components, t) ==
    Cardinality({i \in 1..Len(components) : components[i].type = t})

validateComponentStructure_noDuplicateCheck(components) ==
    IF ~(\E i \in 1..Len(components) : components[i].type = "BODY")
    THEN Fail(Err("BODY component is required for all templates", 0, <<>>))
    ELSE Valid

validateComponentStructure(components) ==
    LET requiredBodyFound == \E i \in 1..Len(components) : components[i].type = "BODY"
        duplicates == {t \in {components[i].type : i \in 1..Len(components)} :
                          CountType(components, t) > 1 /\ t # "BUTTONS"}
    IN  IF ~requiredBodyFound
        THEN Fail(Err("BODY component is required for all templates", 0, <<>>))
        ELSE IF duplicates # {}
             THEN Fail(Err("Duplicate components not allowed", 0, <<>>))
             ELSE Valid

Authentication == Str("AUTHENTICATION")

validCategories == {Str("MARKETING"), Str("UTILITY"), Authentication}

validateTemplateCategory(category) ==
    IF upper(category) \notin validCategories
    THEN Fail(Err("Invalid category", 0, category))
    ELSE Valid

\* The part of nameRegex before the dollar: one or more of a-z, 0-9, underscore.
NameBody(text) ==
    /\ Len(text) >= 1
    /\ \A i \in 1..Len(text) : text[i] \in (97..122) \cup (48..57) \cup {95}

validateTemplateName(name) ==
    IF ~(\E b \in DollarBodies(name) : NameBody(b))
    THEN Fail(Err("Template name must be lowercase letters, numbers, underscores only", 0, <<>>))
    ELSE IF Len(name) > 512
         THEN Fail(Err("Template name exceeds 512 characters", 0, <<>>))
         ELSE Valid

\* The part of languageRegex before the dollar: [a-z]{2}_[A-Z]{2}
LanguageBody(text) ==
    /\ Len(text) = 5
    /\ text[1] \in 97..122 /\ text[2] \in 97..122
    /\ text[3] = 95
    /\ text[4] \in 65..90 /\ text[5] \in 65..90

validateLanguageCode(language) ==
    IF ~(\E b \in DollarBodies(language) : LanguageBody(b))
    THEN Fail(Err("Invalid language code format", 0, language))
    ELSE Valid

RequiredPhrase == Str("{{1}} is your verification code")

\* requiredPattern.search(body): the pattern is anchored at the start, so it
\* is a prefix test.
validateAuthenticationFormat(body) ==
    IF ~startswith(body, RequiredPhrase)
    THEN Fail(Err("Authentication template must start with the required phrase", 0, <<>>))
    ELSE Valid

---------------------------------------------------------------------------
(* Placeholders                                                            *)

\* Positions where variablePattern  {{ digits }}  matches: two opening braces,
\* one or more digits, two closing braces.  e is the position after the digits.
VariableMatches(text) ==
    {p \in 1..Len(text) :
        /\ p + 4 <= Len(text)
        /\ text[p] = 123 /\ text[p + 1] = 123
        /\ \E e \in (p + 3)..(Len(text) - 1) :
              /\ \A i \in (p + 2)..(e - 1) : IsDigit(text[i])
              /\ text[e] = 125 /\ text[e + 1] = 125}

\* int(match.group(1)) for the match at position p
RECURSIVE IntOf(_)
IntOf(digits) ==
    IF digits = <<>> THEN 0
    ELSE 10 * IntOf(SubSeq(digits, 1, Len(digits) - 1))
         + DigitValue(digits[Len(digits)])

VariableAt(text, p) ==
    LET e == CHOOSE e \in (p + 3)..(Len(text) - 1) :
                 /\ \A i \in (p + 2)..(e - 1) : IsDigit(text[i])
                 /\ text[e] = 125
    IN  IntOf(SubSeq(text, p + 2, e - 1))

\* The elements of a finite set of integers in increasing order.
RECURSIVE Ascending(_)
Ascending(S) ==
    IF S = {} THEN <<>>
    ELSE LET m == CHOOSE x \in S : \A y \in S : x <= y
         IN  <<m>> \o Ascending(S \ {m})

\* Variant that does not sort the indices it found.
validateVariableExamples_unsorted(text, examples) ==
    LET where == Ascending(VariableMatches(text))
        variables == [i \in 1..Len(where) |-> VariableAt(text, where[i])]
        expectedSequence == [i \in 1..Len(variables) |-> i]
    IN  IF variables # expectedSequence
        THEN Fail(Err("Variables must be sequential starting from {1}", 0, <<>>))
        ELSE IF Len(variables) # Len(examples)
             THEN Fail(Err("Variable count doesn't match example count",
                           Len(variables), <<>>))
             ELSE Valid

validateVariableExamples(text, examples) ==
    LET where == Ascending(VariableMatches(text))
        found == [i \in 1..Len(where) |-> VariableAt(text, where[i])]
        variables == SortSeq(found, LAMBDA a, b : a < b)
        expectedSequence == [i \in 1..Len(variables) |-> i]
    IN  IF variables # expectedSequence
        THEN Fail(Err("Variables must be sequential starting from {1}", 0, <<>>))
        ELSE IF Len(variables) # Len(examples)
             THEN Fail(Err("Variable count doesn't match example count",
                           Len(variables), <<>>))
             ELSE Valid

---------------------------------------------------------------------------
(* Aggregate validation                                                    *)

\* if not v.isValid: errors.append(v.error)
ErrorOf(v) == IF ~v.isValid THEN <<The(v.error)>> ELSE <<>>

\* if not v.isValid and v.errors: errors.extend(v.errors)
ErrorsOf(v) == IF ~v.isValid /\ v.errors # None THEN The(v.errors) ELSE <<>>

\* Variant that applies the carousel whitelist to the buttons of a template.
ComponentErrors_carouselWhitelist(component) ==
    LET compType == component.type
        text == component.text
    IN  IF compType = "BODY"
        THEN ErrorOf(validateCharacterLimits("body", text))
             \o ErrorsOf(validateFormatting(text))
        ELSE IF compType = "HEADER"
        THEN (IF component.format = "TEXT"
              THEN ErrorOf(validateCharacterLimits("header", text))
                   \o ErrorsOf(validateFormatting(text))
              ELSE <<>>)
             \o ErrorOf(validateMediaHeaders(Some(component)))
        ELSE IF compType = "FOOTER"
        THEN ErrorOf(validateCharacterLimits("footer", text))
             \o ErrorsOf(validateFormatting(text))
        ELSE IF compType = "BUTTONS"
        THEN ErrorOf(validateButtonText(component.buttons))
             \o ErrorOf(validateUrls(component.buttons))
             \o ErrorOf(validatePhoneNumbers(component.buttons))
             \o ErrorOf(validateButtonCombinations("CAROUSEL", component.buttons))
        ELSE <<>>

\* The errors one pass of the component loop appends.
ComponentErrors(component) ==
    LET compType == component.type
        text == component.text
    IN  IF compType = "BODY"
        THEN ErrorOf(validateCharacterLimits("body", text))
             \o ErrorsOf(validateFormatting(text))
        ELSE IF compType = "HEADER"
        THEN (IF component.format = "TEXT"
              THEN ErrorOf(validateCharacterLimits("header", text))
                   \o ErrorsOf(validateFormatting(text))
              ELSE <<>>)
             \o ErrorOf(validateMediaHeaders(Some(component)))
        ELSE IF compType = "FOOTER"
        THEN ErrorOf(validateCharacterLimits("footer", text))
             \o ErrorsOf(validateFormatting(text))
        ELSE IF compType = "BUTTONS"
        THEN ErrorOf(validateButtonText(component.buttons))
             \o ErrorOf(validateUrls(component.buttons))
             \o ErrorOf(validatePhoneNumbers(component.buttons))
             \o ErrorOf(validateButtonCombinations("TEMPLATE", component.buttons))
        ELSE <<>>

\* What one pass of the component loop appends to allText.
ComponentText(component) ==
    IF \/ component.type = "BODY"
       \/ component.type = "HEADER" /\ component.format = "TEXT"
       \/ component.type = "FOOTER"
    THEN <<component.text>>
    ELSE <<>>

\* Variant that puts the errors of later components first.
RECURSIVE LoopErrors_reversed(_)
LoopErrors_reversed(components) ==
    IF components = <<>> THEN <<>>
    ELSE LoopErrors_reversed(Tail(components)) \o ComponentErrors(Head(components))

RECURSIVE LoopErrors(_)
LoopErrors(components) ==
    IF components = <<>> THEN <<>>
    ELSE ComponentErrors(Head(components)) \o LoopErrors(Tail(components))

RECURSIVE AllText(_)
AllText(components) ==
    IF components = <<>> THEN <<>>
    ELSE ComponentText(Head(components)) \o AllText(Tail(components))

\* next((c.get('text', '') for c in components if c.get('type') == 'BODY'), '')
FirstBodyText(components) ==
    IF \E i \in 1..Len(components) : components[i].type = "BODY"
    THEN components[CHOOSE i \in 1..Len(components) :
                       /\ components[i].type = "BODY"
                       /\ \A j \in 1..(i - 1) : components[j].type # "BODY"].text
    ELSE <<>>

\* The name, category, language and component structure checks.
BasicErrors(templateData) ==
    ErrorOf(validateTemplateName(templateData.name))
    \o ErrorOf(validateTemplateCategory(templateData.category))
    \o ErrorOf(validateLanguageCode(templateData.language))
    \o ErrorOf(validateComponentStructure(templateData.components))

\* The emoji limit check over the collected text.
EmojiErrors(components) == ErrorOf(validateEmojiLimit(AllText(components)))

AuthenticationErrors_caseSensitive(category, components) ==
    IF category = Authentication
    THEN ErrorOf(validateAuthenticationFormat(FirstBodyText(components)))
    ELSE <<>>

\* The authentication format check, run for the AUTHENTICATION category.
AuthenticationErrors(category, components) ==
    IF upper(category) = Authentication
    THEN ErrorOf(validateAuthenticationFormat(FirstBodyText(components)))
    ELSE <<>>

Aggregate_keepsEmptyList(errors) ==
    ValidationResult(Len(errors) = 0, None, Some(errors))

\* ValidationResult(len(errors) == 0, errors=errors if errors else None)
Aggregate(errors) ==
    ValidationResult(Len(errors) = 0, None,
                     IF errors # <<>> THEN Some(errors) ELSE None)

validateCompleteTemplate_shortCircuit(templateData) ==
    LET basic == BasicErrors(templateData)
        loop == LoopErrors(templateData.components)
        emoji == EmojiErrors(templateData.components)
        auth == AuthenticationErrors(templateData.category, templateData.components)
    IN  Aggregate(IF basic # <<>> THEN basic
                  ELSE IF loop # <<>> THEN loop
                  ELSE IF emoji # <<>> THEN emoji
                  ELSE auth)

validateCompleteTemplate(templateData) ==
    Aggregate(BasicErrors(templateData)
              \o LoopErrors(templateData.components)
              \o EmojiErrors(templateData.components)
              \o AuthenticationErrors(templateData.category,
                                      templateData.components))

\* A response dict: success and validation_errors are the keys of
\* formatValidationErrors, status is the key of _make_request; an absent key is
\* None.
Response(success, validation_errors, status) ==
    [success |-> success, validation_errors |-> validation_errors, status |-> status]

\* Variant that reports only the first entry of the errors list.
formatValidationErrors_firstOnly(validationResult) ==
    IF validationResult.isValid
    THEN Response(Some(TRUE), None, None)
    ELSE IF validationResult.errors # None /\ The(validationResult.errors) # <<>>
    THEN Response(Some(FALSE),
                  Some(<<[field |-> "template",
                          message |-> Some(The(validationResult.errors)[1])]>>),
                  None)
    ELSE Response(Some(FALSE),
                  Some(<<[field |-> "template", message |-> validationResult.error]>>),
                  None)

formatValidationErrors(validationResult) ==
    IF validationResult.isValid
    THEN Response(Some(TRUE), None, None)
    ELSE IF validationResult.errors # None /\ The(validationResult.errors) # <<>>
    THEN Response(Some(FALSE),
                  Some([i \in 1..Len(The(validationResult.errors)) |->
                          [field |-> "template",
                           message |-> Some(The(validationResult.errors)[i])]]),
                  None)
    ELSE Response(Some(FALSE),
                  Some(<<[field |-> "template", message |-> validationResult.error]>>),
                  None)

---------------------------------------------------------------------------
(* Carousel cards                                                          *)

\* A card dict: body_text, header (an Optional header dict), buttons.
Card(body_text, header, buttons) ==
    [body_text |-> body_text, header |-> header, buttons |-> buttons]

\* sorted([b.get('type') for b in buttons]): two sorted lists are equal exactly
\* when every type occurs equally often in both, so the sorted list is held as
\* the number of occurrences of each type present.
SortedTypes(buttons) ==
    [t \in {buttons[i].type : i \in 1..Len(buttons)} |->
        Cardinality({i \in 1..Len(buttons) : buttons[i].type = t})]

CardStructure(card) ==
    [hasHeader |-> card.header # None,
     headerType |-> IF card.header # None THEN The(card.header).format ELSE "",
     buttonCount |-> Len(card.buttons),
     buttonTypes |-> SortedTypes(card.buttons)]

\* Variant that names the last card that differs.
validateCarouselConsistency_lastMismatch(cards) ==
    IF Len(cards) < 2 \/ Len(cards) > 10
    THEN Fail(Err("Carousel must have 2-10 cards", Len(cards), <<>>))
    ELSE LET firstCardStructure == CardStructure(cards[1])
             differing == {i \in 2..Len(cards) :
                              CardStructure(cards[i]) # firstCardStructure}
         IN  IF differing # {}
             THEN Fail(Err("Card structure doesn't match card 1",
                           CHOOSE i \in differing : \A j \in differing : i >= j,
                           <<>>))
             ELSE Valid

validateCarouselConsistency(cards) ==
    IF Len(cards) < 2 \/ Len(cards) > 10
    THEN Fail(Err("Carousel must have 2-10 cards", Len(cards), <<>>))
    ELSE LET firstCardStructure == CardStructure(cards[1])
             differing == {i \in 2..Len(cards) :
                              CardStructure(cards[i]) # firstCardStructure}
         IN  IF differing # {}
             THEN Fail(Err("Card structure doesn't match card 1",
                           CHOOSE i \in differing : \A j \in differing : i <= j,
                           <<>>))
             ELSE Valid

---------------------------------------------------------------------------
(* Template creation handlers                                              *)

\* What a handler call leaves behind: the template data it validated (None if
\* it never built one), the last ValidationResult it computed, the dict it
\* returned and the payloads it POSTed.
Outcome(data, v, resp, sent) ==
    [template_data |-> data, result |-> v, response |-> resp, posted |-> sent]

TemplateData(name, category, language, components) ==
    [name |-> name, category |-> category, language |-> language,
     components |-> components]

\* _make_request("POST", templates_url, payload): the dict built from the
\* provider's reply, which is a success or an error.
make_request(reply) == Response(None, None, Some(reply))

create_message_template_noEarlyReturn(name, category, language, components, reply) ==
    LET template_data_ == TemplateData(name, upper(category), language, components)
        validation_result == validateCompleteTemplate(template_data_)
        payload == TemplateData(name, upper(category), language, components)
    IN  Outcome(Some(template_data_), Some(validation_result),
                make_request(reply), <<payload>>)

create_message_template(name, category, language, components, reply) ==
    LET template_data_ == TemplateData(name, upper(category), language, components)
        validation_result == validateCompleteTemplate(template_data_)
        payload == TemplateData(name, upper(category), language, components)
    IN  IF ~validation_result.isValid
        THEN Outcome(Some(template_data_), Some(validation_result),
                     formatValidationErrors(validation_result), <<>>)
        ELSE Outcome(Some(template_data_), Some(validation_result),
                     make_request(reply), <<payload>>)

\* The components list create_message_template_enhanced builds: a TEXT header
\* if header_text is given, the body (with the body examples under the key
\* example if example_values has them), a footer if footer_text is given, a
\* BUTTONS component if buttons are given.  A missing argument is empty.
EnhancedComponents(body_text, header_text, footer_text, buttons, example_values) ==
    (IF header_text # <<>>
     THEN <<Component("HEADER", "TEXT", header_text, <<>>, <<>>)>> ELSE <<>>)
    \o <<IF example_values # None
         THEN [example |-> The(example_values)]
              @@ Component("BODY", "", body_text, <<>>, <<>>)
         ELSE Component("BODY", "", body_text, <<>>, <<>>)>>
    \o (IF footer_text # <<>>
        THEN <<Component("FOOTER", "", footer_text, <<>>, <<>>)>> ELSE <<>>)
    \o (IF buttons # <<>>
        THEN <<Component("BUTTONS", "", <<>>, <<>>, buttons)>> ELSE <<>>)

create_message_template_enhanced(name, category, language, body_text, header_text, footer_text, buttons, example_values, reply) ==
    create_message_template(name, category, language,
                            EnhancedComponents(body_text, header_text, footer_text,
                                               buttons, example_values),
                            reply)

\* A dict returned by a tool: the keys of Response and the key message (a
\* label for the fixed text, or for the text of the exception caught).
ToolResponse(success, validation_errors, status, message) ==
    [success |-> success, validation_errors |-> validation_errors,
     status |-> status, message |-> message]

\* Whether the relative import of .validation inside validate_template_data
\* resolves.  comprehensive_tools_extended is imported as a top-level module
\* (main.py, main_http.py), so it has no parent package and the import raises
\* ImportError; there is no validation module next to it either.
RelativeImportResolves == FALSE

RECURSIVE FormattingErrors(_)
FormattingErrors(texts) ==
    IF texts = <<>> THEN <<>>
    ELSE ErrorsOf(validateFormatting(Head(texts))) \o FormattingErrors(Tail(texts))

\* The errors list validate_template_data collects once its imports are done.
DryRunErrors(name, category, language, body_text, header_text, footer_text, buttons) ==
    LET all_text == <<body_text>>
                    \o (IF header_text # <<>> THEN <<header_text>> ELSE <<>>)
                    \o (IF footer_text # <<>> THEN <<footer_text>> ELSE <<>>)
    IN  ErrorOf(validateTemplateName(name))
        \o ErrorOf(validateTemplateCategory(category))
        \o ErrorOf(validateLanguageCode(language))
        \o ErrorOf(validateCharacterLimits("body", body_text))
        \o (IF header_text # <<>>
            THEN ErrorOf(validateCharacterLimits("header", header_text)) ELSE <<>>)
        \o (IF footer_text # <<>>
            THEN ErrorOf(validateCharacterLimits("footer", footer_text)) ELSE <<>>)
        \o ErrorOf(validateEmojiLimit(all_text))
        \o FormattingErrors(all_text)
        \o (IF buttons # <<>>
            THEN ErrorOf(validateButtonText(buttons))
                 \o ErrorOf(validateUrls(buttons))
                 \o ErrorOf(validatePhoneNumbers(buttons))
            ELSE <<>>)
        \o (IF upper(category) = Authentication
            THEN ErrorOf(validateAuthenticationFormat(body_text)) ELSE <<>>)

\* The whole body is inside try/except Exception: a failed import returns the
\* error dict.
validate_template_data(name, category, language, body_text, header_text, footer_text, buttons) ==
    IF ~RelativeImportResolves
    THEN ToolResponse(None, None, Some("error"), Some("ImportError"))
    ELSE LET errors == DryRunErrors(name, category, language, body_text,
                                    header_text, footer_text, buttons)
         IN  IF errors # <<>>
             THEN ToolResponse(Some(FALSE),
                               Some([i \in 1..Len(errors) |->
                                       [field |-> "template",
                                        message |-> Some(errors[i])]]),
                               None, None)
             ELSE ToolResponse(Some(TRUE), None, None,
                               Some("Template data is valid and ready for creation"))

\* An early return of create_carousel_template with a failed rule check.
Rejected(v) == Outcome(None, Some(v), formatValidationErrors(v), <<>>)

RECURSIVE CardTexts(_)
CardTexts(cards) ==
    IF cards = <<>> THEN <<>>
    ELSE (IF Head(cards).body_text # <<>> THEN <<Head(cards).body_text>> ELSE <<>>)
         \o CardTexts(Tail(cards))

RECURSIVE CardButtons(_)
CardButtons(cards) ==
    IF cards = <<>> THEN <<>>
    ELSE Head(cards).buttons \o CardButtons(Tail(cards))

\* The CAROUSEL component built for card number i (0-based index i - 1).
CardComponent(cards, i) ==
    [type |-> "CAROUSEL", format |-> "", text |-> <<>>, header_url |-> <<>>,
     buttons |-> cards[i].buttons, index |-> i - 1,
     body |-> cards[i].body_text, header |-> cards[i].header]

\* Variant that checks the name before everything else.
create_carousel_template_nameFirst(name, category, language, body_text, cards, reply) ==
    LET carousel_validation == validateCarouselConsistency(cards)
        all_text == <<body_text>> \o CardTexts(cards)
        all_buttons == CardButtons(cards)
        emoji_validation == validateEmojiLimit(all_text)
        body_validation == validateCharacterLimits("body", body_text)
        format_validation == validateFormatting(body_text)
        button_validation == validateButtonText(all_buttons)
        url_validation == validateUrls(all_buttons)
        phone_validation == validatePhoneNumbers(all_buttons)
        name_validation == validateTemplateName(name)
        category_validation == validateTemplateCategory(category)
        language_validation == validateLanguageCode(language)
        components == <<Component("BODY", "", body_text, <<>>, <<>>)>>
                      \o [i \in 1..Len(cards) |-> CardComponent(cards, i)]
        template_data_ == TemplateData(name, upper(category), language, components)
        validation_result == validateCompleteTemplate(template_data_)
        payload == TemplateData(name, upper(category), language, components)
    IN  IF ~name_validation.isValid THEN Rejected(name_validation)
        ELSE IF ~carousel_validation.isValid THEN Rejected(carousel_validation)
        ELSE IF ~emoji_validation.isValid THEN Rejected(emoji_validation)
        ELSE IF ~body_validation.isValid THEN Rejected(body_validation)
        ELSE IF ~format_validation.isValid THEN Rejected(format_validation)
        ELSE IF all_buttons # <<>> /\ ~button_validation.isValid
             THEN Rejected(button_validation)
        ELSE IF all_buttons # <<>> /\ ~url_validation.isValid
             THEN Rejected(url_validation)
        ELSE IF all_buttons # <<>> /\ ~phone_validation.isValid
             THEN Rejected(phone_validation)
        ELSE IF ~category_validation.isValid THEN Rejected(category_validation)
        ELSE IF ~language_validation.isValid THEN Rejected(language_validation)
        ELSE IF ~validation_result.isValid
             THEN Outcome(Some(template_data_), Some(validation_result),
                          formatValidationErrors(validation_result), <<>>)
             ELSE Outcome(Some(template_data_), Some(validation_result),
                          make_request(reply), <<payload>>)

create_carousel_template(name, category, language, body_text, cards, reply) ==
    LET carousel_validation == validateCarouselConsistency(cards)
        all_text == <<body_text>> \o CardTexts(cards)
        all_buttons == CardButtons(cards)
        emoji_validation == validateEmojiLimit(all_text)
        body_validation == validateCharacterLimits("body", body_text)
        format_validation == validateFormatting(body_text)
        button_validation == validateButtonText(all_buttons)
        url_validation == validateUrls(all_buttons)
        phone_validation == validatePhoneNumbers(all_buttons)
        name_validation == validateTemplateName(name)
        category_validation == validateTemplateCategory(category)
        language_validation == validateLanguageCode(language)
        components == <<Component("BODY", "", body_text, <<>>, <<>>)>>
                      \o [i \in 1..Len(cards) |-> CardComponent(cards, i)]
        template_data_ == TemplateData(name, upper(category), language, components)
        validation_result == validateCompleteTemplate(template_data_)
        payload == TemplateData(name, upper(category), language, components)
    IN  IF ~carousel_validation.isValid THEN Rejected(carousel_validation)
        ELSE IF ~emoji_validation.isValid THEN Rejected(emoji_validation)
        ELSE IF ~body_validation.isValid THEN Rejected(body_validation)
        ELSE IF ~format_validation.isValid THEN Rejected(format_validation)
        ELSE IF all_buttons # <<>> /\ ~button_validation.isValid
             THEN Rejected(button_validation)
        ELSE IF all_buttons # <<>> /\ ~url_validation.isValid
             THEN Rejected(url_validation)
        ELSE IF all_buttons # <<>> /\ ~phone_validation.isValid
             THEN Rejected(phone_validation)
        ELSE IF ~name_validation.isValid THEN Rejected(name_validation)
        ELSE IF ~category_validation.isValid THEN Rejected(category_validation)
        ELSE IF ~language_validation.isValid THEN Rejected(language_validation)
        ELSE IF ~validation_result.isValid
             THEN Outcome(Some(template_data_), Some(validation_result),
                          formatValidationErrors(validation_result), <<>>)
             ELSE Outcome(Some(template_data_), Some(validation_result),
                          make_request(reply), <<payload>>)

---------------------------------------------------------------------------
(* Inputs                                                                  *)

MaxComponents == 3      \* longest component list drawn
MaxCards == 3           \* longest card list drawn
MaxTexts == 4           \* longest text list drawn for validateEmojiLimit
MaxLen == 4             \* longest text drawn for countEmojis
MaxButtons == 2         \* longest button list drawn for the button checks
MaxExamples == 3        \* longest example list drawn
MaxErrors == 3          \* longest errors list drawn for formatValidationErrors
MaxFormatLen == 4       \* longest text drawn over the markup alphabet

Grin == 128512          \* U+1F600, in the emoticons range
Globe == 127757         \* U+1F30D, in the symbols and pictographs range

\* n emojis, each followed by a space.
SpacedEmojis(n) == Rep(<<Grin, 32>>, n)

\* All sequences over S of length 0 to n.
SeqsUpTo(S, n) == UNION {[1..k -> S] : k \in 0..n}

Names == {Str("order_confirm_2"), Str("Order-Confirm")}
Categories == {Str("MARKETING"), Str("AUTHENTICATION"), Str("authentication"),
               Str("PROMO")}
Languages == {Str("en_US"), Str("en-US")}

\* A body over the 550 limit that also carries six emojis.
LongBody == SpacedEmojis(6) \o Rep(Str("A"), limits.body)

Bodies ==
    {Str("Hello {{1}}"),
     SpacedEmojis(5),
     LongBody,
     Str("Hi {{1}} and {{3}}"),
     Str("{{1}} is your verification code for login"),
     Str("Sale ***\n\nnow")}

TextHeader == Component("HEADER", "TEXT", Str("Deals ") \o <<Globe>>, <<>>, <<>>)
PlainFooter == Component("FOOTER", "", Str("Reply STOP to opt out"), <<>>, <<>>)
ReplyButtons ==
    Component("BUTTONS", "", <<>>, <<>>,
              <<Button("QUICK_REPLY", Str("Yes"), <<>>, <<>>)>>)

\* No header, or one header.
HeaderOptions ==
    {<<>>,
     <<TextHeader>>,
     <<Component("HEADER", "IMAGE", <<>>, <<Str("https://cdn.example/a.jpg")>>, <<>>)>>,
     <<Component("HEADER", "IMAGE", <<>>, <<Str("http://cdn.example/a.gif")>>, <<>>)>>}

\* No footer, or one footer.
FooterOptions ==
    {<<>>,
     <<PlainFooter>>,
     <<Component("FOOTER", "", SpacedEmojis(5), <<>>, <<>>)>>}

\* No buttons, or one BUTTONS component.
ButtonOptions ==
    {<<>>,
     <<ReplyButtons>>,
     <<Component("BUTTONS", "", <<>>, <<>>,
                 <<Button("URL", Str("Shop"), Str("http://shop.example"), <<>>),
                   Button("PHONE_NUMBER", Str("Call"), <<>>, Str("+12"))>>)>>,
     <<Component("BUTTONS", "", <<>>, <<>>,
                 <<Button("QUICK_REPLY", Str("Yes ") \o <<Grin>>, <<>>, <<>>)>>)>>}

\* Component lists in the usual layout (header, body, footer, buttons), with
\* the contents varied.
ContentLists ==
    {h \o <<Component("BODY", "", b, <<>>, <<>>)>> \o f \o u :
        h \in HeaderOptions, b \in Bodies, f \in FooterOptions, u \in ButtonOptions}

\* Component lists of every shape (kinds missing, repeated, in any order), with
\* one sample component per kind.
StructureLists ==
    SeqsUpTo({Component("BODY", "", Str("Hello {{1}}"), <<>>, <<>>),
              TextHeader, PlainFooter, ReplyButtons,
              Component("CAROUSEL", "", <<>>, <<>>, <<>>)},
             MaxComponents)

ComponentLists == ContentLists \cup StructureLists

ImageHeader ==
    Component("HEADER", "IMAGE", <<>>, <<Str("https://cdn.example/a.jpg")>>, <<>>)

Cards ==
    {Card(Str("Card one"), Some(ImageHeader),
          <<Button("QUICK_REPLY", Str("Buy"), <<>>, <<>>)>>),
     Card(Str("Card two"), Some(ImageHeader),
          <<Button("QUICK_REPLY", Str("More"), <<>>, <<>>)>>),
     Card(Str("Plain"), None, <<>>),
     Card(Str("Link"), Some(ImageHeader),
          <<Button("URL", Str("Open"), Str("http://shop.example"), <<>>)>>)}

CardLists == SeqsUpTo(Cards, MaxCards)

CarouselBodies == {Str("Pick one"), Str("Pick ***")}

EmojiTexts ==
    {Str("Hello"), Str("Hello ") \o <<Grin>>, <<Grin, Globe>>,
     SpacedEmojis(2), SpacedEmojis(3)}

TextLists ==
    SeqsUpTo(EmojiTexts, MaxTexts)
    \cup {[i \in 1..n |-> Str("Hello ") \o <<Grin>>] : n \in 10..11}

ShortTexts == SeqsUpTo({97, 32, Grin, Globe}, MaxLen)

ProviderReplies == {"success", "error"}

\* Component kinds: the four known ones, and two that are not.
ComponentKinds == {"body", "header", "footer", "button", "title", "Body"}

\* Texts of length 0, and of each limit and one more.
LimitTexts ==
    {Rep(Str("A"), n) :
        n \in {0} \cup {limits[k] + d : k \in DOMAIN limits, d \in 0..1}}

\* Texts with placeholders: in order, with a gap, out of order, repeated, none,
\* starting at 0, unclosed, in extra braces, with a two-digit index, and with
\* an Arabic-Indic digit.
VariableTexts ==
    {Str("Hi {{1}} and {{3}}"), Str("Hi {{1}} and {{2}}"), Str("{{2}} then {{1}}"),
     Str("{{1}} or {{1}}"), Str("Hello"), Str("{{0}} and {{1}}"), Str("Hi {{1}"),
     Str("{{{1}}}"), Str("{{10}}"), Str("{{1}}{{2}}{{3}}"),
     Str("{{") \o <<1633>> \o Str("}}")}

ExampleLists == {[i \in 1..n |-> Str("Alice")] : n \in 0..MaxExamples}

VideoHeader ==
    Component("HEADER", "VIDEO", <<>>, <<Str("https://cdn.example/a.mp4")>>, <<>>)

\* Cards that differ in header presence, header format, number of buttons,
\* button types and button order.
ConsistencyCards ==
    Cards
    \cup {Card(Str("Clip"), Some(VideoHeader),
               <<Button("QUICK_REPLY", Str("Buy"), <<>>, <<>>)>>),
          Card(Str("Two"), Some(ImageHeader),
               <<Button("QUICK_REPLY", Str("Buy"), <<>>, <<>>),
                 Button("URL", Str("Open"), Str("https://shop.example"), <<>>)>>),
          Card(Str("Owt"), Some(ImageHeader),
               <<Button("URL", Str("Open"), Str("https://shop.example"), <<>>),
                 Button("QUICK_REPLY", Str("Buy"), <<>>, <<>>)>>)}

\* Card lists of up to MaxCards cards, and lists of 10 and 11 cards that are
\* all alike or have one card that differs.
ConsistencyLists ==
    SeqsUpTo(ConsistencyCards, MaxCards)
    \cup {[i \in 1..n |-> Card(Str("Plain"), None, <<>>)] : n \in 10..11}
    \cup {[i \in 1..n |-> IF i \in {k, 9} THEN Card(Str("Link"), Some(ImageHeader), <<>>)
                                            ELSE Card(Str("Plain"), None, <<>>)] :
             n \in 10..11, k \in {4, 9}}

ButtonTypes == {"QUICK_REPLY", "URL", "PHONE_NUMBER", "COPY_CODE"}
TemplateTypes == {"CAROUSEL", "TEMPLATE"}

TypeLists ==
    SeqsUpTo({Button(t, <<>>, <<>>, <<>>) : t \in ButtonTypes}, MaxButtons)

\* Urls: none, https, http, upper-case scheme, and https urls of 2000 and 2001
\* characters.
Urls ==
    {<<>>, Str("https://shop.example"), Str("http://shop.example"),
     Str("HTTPS://shop.example"),
     HttpsPrefix \o Rep(Str("a"), 2000 - Len(HttpsPrefix)),
     HttpsPrefix \o Rep(Str("a"), 2001 - Len(HttpsPrefix))}

UrlLists ==
    SeqsUpTo({Button("URL", Str("Open"), u, <<>>) : u \in Urls}
             \cup {Button("QUICK_REPLY", Str("Yes"), Str("http://shop.example"), <<>>)},
             MaxButtons)

\* Phone numbers: none, 9, 10, 15 and 16 digits after the plus, no plus, spaces
\* between the digits, a final line break, and Arabic-Indic digits.
Phones ==
    {<<>>, Str("+123456789"), Str("+1234567890"), Str("+123456789012345"),
     Str("+1234567890123456"), Str("1234567890"), Str("+1 234 567 890"),
     Str("+1234567890\n"), Str("+") \o Rep(<<1633>>, 10)}

PhoneLists ==
    SeqsUpTo({Button("PHONE_NUMBER", Str("Call"), <<>>, ph) : ph \in Phones}
             \cup {Button("QUICK_REPLY", Str("Yes"), <<>>, Str("12"))},
             MaxButtons)

NameTexts ==
    {Str("order_confirm_2"), Str("Order_Confirm"), Str("order-confirm"),
     Str("order_confirm_2\n"), Str("order confirm"), <<>>, <<10>>,
     Rep(Str("a"), 512), Rep(Str("a"), 513), Rep(Str("a"), 511) \o <<10>>,
     Rep(Str("a"), 512) \o <<10>>}

LanguageTexts ==
    {Str("en_US"), Str("pt_BR"), Str("en-US"), Str("EN_us"), Str("eng_US"),
     Str("en_US\n"), Str("en_US "), Str(" en_US"), Str("en_U"), Str("en_US\n\n"),
     <<>>}

HeaderFormats == {"TEXT", "IMAGE", "VIDEO", "DOCUMENT", "GIF", ""}

HeaderUrls ==
    {<<>>} \cup
    {<<Str(u)>> : u \in {"https://cdn.example/a.jpg", "https://cdn.example/a.jpeg",
                         "https://cdn.example/A.PNG", "https://cdn.example/a.mp4",
                         "https://cdn.example/a.pdf", "https://cdn.example/a.gif",
                         "http://cdn.example/a.jpg", "https://cdn.example/jpg"}}

Headers ==
    {None} \cup {Some(Component("HEADER", f, <<>>, u, <<>>)) :
                    f \in HeaderFormats, u \in HeaderUrls}

\* Button texts: none, plain, with an emoji, with each markup character, with
\* a line break.
ButtonTexts ==
    {<<>>, Str("Yes"), Str("Yes ") \o <<Grin>>, Str("*Yes*"), Str("a_b"),
     Str("a~b"), <<97, 96, 98>>, Str("{x"), Str("x}"), Str("Yes\nNo"),
     Str("*Hi* ") \o <<Grin>>, Str("a_b\nc")}

TextButtonLists ==
    SeqsUpTo({Button("QUICK_REPLY", t, <<>>, <<>>) : t \in ButtonTexts}, MaxButtons)

\* Two error messages of the rule checks.
SampleErrors ==
    {Err("BODY component is required for all templates", 0, <<>>),
     Err("Template has too many emojis, maximum 10 allowed", 11, <<>>)}

\* ValidationResult objects: any verdict, with or without an error, with or
\* without an errors list.
ValidationResults ==
    {ValidationResult(isValid, error, errors) :
        isValid \in BOOLEAN,
        error \in {None} \cup {Some(x) : x \in SampleErrors},
        errors \in {None} \cup {Some(l) : l \in SeqsUpTo(SampleErrors, MaxErrors)}}

\* Texts for validateFormatting: every text over an asterisk, an underscore,
\* a line break and a letter up to MaxFormatLen, and longer texts with paired
\* and stray markers of each family.
FormatTexts ==
    SeqsUpTo({42, 95, 10, 97}, MaxFormatLen)
    \cup {Str("This is *invalid bold* formatting*"),
          Str("This is *bold* and _italic_ text"),
          Str("_x_ and _"), Str("~x~ and ~"), Str("~~~"), Str("~a~"),
          Str("***___~~~\n\n"), Str("***___~~~"), Str("*** _a_ ~~~"),
          Str("Line 1\n\nLine 2")}

\* Arguments of the tools that take the parts of a flat template.
ToolBodies ==
    {Str("Hello {{1}}"), SpacedEmojis(5), LongBody,
     Str("{{1}} is your verification code for login"), Str("Sale ***\n\nnow")}

ToolHeaders == {<<>>, Str("Deals ") \o <<Globe>>, Rep(Str("H"), limits.header + 1)}

ToolFooters == {<<>>, Str("Reply STOP to opt out"), SpacedEmojis(5)}

\* Button lists: none, one plain button, one button whose text has one
\* character more than the button limit, a link and a phone button, and
\* several buttons that break the text, url and phone rules.
ToolButtons ==
    {<<>>,
     <<Button("QUICK_REPLY", Str("Yes"), <<>>, <<>>)>>,
     <<Button("QUICK_REPLY", Rep(Str("B"), limits.button + 1), <<>>, <<>>)>>,
     <<Button("URL", Str("Shop"), Str("https://shop.example"), <<>>),
       Button("PHONE_NUMBER", Str("Call"), <<>>, Str("+1234567890"))>>,
     <<Button("URL", Str("Shop ") \o <<Grin>>, Str("http://shop.example"), <<>>),
       Button("URL", Str("*Shop*"), Str("ftp://shop.example"), <<>>),
       Button("PHONE_NUMBER", Str("Call\nnow"), <<>>, Str("+12")),
       Button("PHONE_NUMBER", Str("Call"), <<>>, Str("12345"))>>}

ExampleValues == {None, Some(<<Str("Alice")>>)}

\* Pairs of alike cards in which each card breaks one per-field rule: a body
\* over the body limit, a body with bad markup, a button text with an emoji,
\* a phone number without a plus sign.
RuleCards ==
    {Card(Rep(Str("A"), limits.body + 1), None, <<>>),
     Card(Str("Sale ***"), None, <<>>),
     Card(Str("Card"), None, <<Button("QUICK_REPLY", Str("Buy ") \o <<Grin>>, <<>>, <<>>)>>),
     Card(Str("Card"), None, <<Button("PHONE_NUMBER", Str("Call"), <<>>, Str("12345"))>>)}

RuleCardLists == {<<c, c>> : c \in RuleCards}

---------------------------------------------------------------------------
(* One call of an operation, from its arguments to its return              *)

NoArgs ==
    [name |-> <<>>, category |-> <<>>, language |-> <<>>, components |-> <<>>,
     body_text |-> <<>>, cards |-> <<>>, texts |-> <<>>, text |-> <<>>,
     component |-> "", examples |-> <<>>, buttons |-> <<>>, header |-> None,
     templateType |-> "", validation |-> Valid,
     header_text |-> <<>>, footer_text |-> <<>>, example_values |-> None]

TemplateArgs ==
    {[NoArgs EXCEPT !.name = name, !.category = category, !.language = language,
                    !.components = components] :
        name \in Names, category \in Categories, language \in Languages,
        components \in ComponentLists}

CarouselArgs ==
    {[NoArgs EXCEPT !.name = name, !.category = category, !.language = language,
                    !.body_text = body_text, !.cards = cards] :
        name \in Names, category \in Categories, language \in Languages,
        body_text \in CarouselBodies, cards \in CardLists \cup RuleCardLists}

ToolArgs ==
    {[NoArgs EXCEPT !.name = name, !.category = category, !.language = language,
                    !.body_text = body_text, !.header_text = header_text,
                    !.footer_text = footer_text, !.buttons = buttons] :
        name \in Names, category \in Categories, language \in Languages,
        body_text \in ToolBodies, header_text \in ToolHeaders,
        footer_text \in ToolFooters, buttons \in ToolButtons}

Init ==
    /\ pc = "called"
    /\ \/ tool = "create_message_template" /\ args \in TemplateArgs
       \/ tool = "validateCompleteTemplate" /\ args \in TemplateArgs
       \/ tool = "create_carousel_template" /\ args \in CarouselArgs
       \/ tool = "validateEmojiLimit"
          /\ args \in {[NoArgs EXCEPT !.texts = texts] : texts \in TextLists}
       \/ tool = "countEmojis"
          /\ args \in {[NoArgs EXCEPT !.text = text] : text \in ShortTexts}
       \/ tool = "validateCharacterLimits"
          /\ args \in {[NoArgs EXCEPT !.component = c, !.text = t] :
                         c \in ComponentKinds, t \in LimitTexts}
       \/ tool = "validateVariableExamples"
          /\ args \in {[NoArgs EXCEPT !.text = t, !.examples = e] :
                         t \in VariableTexts, e \in ExampleLists}
       \/ tool = "validateCarouselConsistency"
          /\ args \in {[NoArgs EXCEPT !.cards = c] : c \in ConsistencyLists}
       \/ tool = "validateButtonCombinations"
          /\ args \in {[NoArgs EXCEPT !.templateType = t, !.buttons = b] :
                         t \in TemplateTypes, b \in TypeLists}
       \/ tool = "validateUrls"
          /\ args \in {[NoArgs EXCEPT !.buttons = b] : b \in UrlLists}
       \/ tool = "validatePhoneNumbers"
          /\ args \in {[NoArgs EXCEPT !.buttons = b] : b \in PhoneLists}
       \/ tool = "validateTemplateName"
          /\ args \in {[NoArgs EXCEPT !.name = n] : n \in NameTexts}
       \/ tool = "validateLanguageCode"
          /\ args \in {[NoArgs EXCEPT !.language = l] : l \in LanguageTexts}
       \/ tool = "validateMediaHeaders"
          /\ args \in {[NoArgs EXCEPT !.header = h] : h \in Headers}
       \/ tool = "validateButtonText"
          /\ args \in {[NoArgs EXCEPT !.buttons = b] : b \in TextButtonLists}
       \/ tool = "formatValidationErrors"
          /\ args \in {[NoArgs EXCEPT !.validation = v] : v \in ValidationResults}
       \/ tool = "validateFormatting"
          /\ args \in {[NoArgs EXCEPT !.text = t] : t \in FormatTexts}
       \/ tool = "create_message_template_enhanced"
          /\ args \in {[a EXCEPT !.example_values = x] :
                         a \in ToolArgs, x \in ExampleValues}
       \/ tool = "validate_template_data" /\ args \in ToolArgs
    /\ template_data = None
    /\ result = None
    /\ count = None
    /\ response = None
    /\ posted = <<>>

\* Leave the outcome of a handler call in the state.
Return(o) ==
    /\ pc' = "returned"
    /\ template_data' = o.template_data
    /\ result' = o.result
    /\ response' = Some(o.response)
    /\ posted' = o.posted
    /\ UNCHANGED <<tool, args, count>>

CreateMessageTemplate ==
    /\ pc = "called"
    /\ tool = "create_message_template"
    /\ \E reply \in ProviderReplies :
          Return(create_message_template(args.name, args.category, args.language,
                                         args.components, reply))

CreateCarouselTemplate ==
    /\ pc = "called"
    /\ tool = "create_carousel_template"
    /\ \E reply \in ProviderReplies :
          Return(create_carousel_template(args.name, args.category, args.language,
                                          args.body_text, args.cards, reply))

ValidateCompleteTemplate ==
    /\ pc = "called"
    /\ tool = "validateCompleteTemplate"
    /\ LET templateData == TemplateData(args.name, args.category, args.language,
                                        args.components)
       IN  /\ template_data' = Some(templateData)
           /\ result' = Some(validateCompleteTemplate(templateData))
    /\ pc' = "returned"
    /\ UNCHANGED <<tool, args, count, response, posted>>

ValidateEmojiLimit ==
    /\ pc = "called"
    /\ tool = "validateEmojiLimit"
    /\ result' = Some(validateEmojiLimit(args.texts))
    /\ pc' = "returned"
    /\ UNCHANGED <<tool, args, template_data, count, response, posted>>

CountEmojis ==
    /\ pc = "called"
    /\ tool = "countEmojis"
    /\ count' = Some(countEmojis(args.text))
    /\ pc' = "returned"
    /\ UNCHANGED <<tool, args, template_data, result, response, posted>>

\* A call of one rule check: it leaves its ValidationResult in result.
Check(name, v) ==
    /\ pc = "called"
    /\ tool = name
    /\ result' = Some(v)
    /\ pc' = "returned"
    /\ UNCHANGED <<tool, args, template_data, count, response, posted>>

ValidateCharacterLimits ==
    Check("validateCharacterLimits", validateCharacterLimits(args.component, args.text))

ValidateVariableExamples ==
    Check("validateVariableExamples", validateVariableExamples(args.text, args.examples))

ValidateCarouselConsistency ==
    Check("validateCarouselConsistency", validateCarouselConsistency(args.cards))

ValidateButtonCombinations ==
    Check("validateButtonCombinations",
          validateButtonCombinations(args.templateType, args.buttons))

ValidateUrls == Check("validateUrls", validateUrls(args.buttons))

ValidatePhoneNumbers == Check("validatePhoneNumbers", validatePhoneNumbers(args.buttons))

ValidateTemplateName == Check("validateTemplateName", validateTemplateName(args.name))

ValidateLanguageCode == Check("validateLanguageCode", validateLanguageCode(args.language))

ValidateMediaHeaders == Check("validateMediaHeaders", validateMediaHeaders(args.header))

ValidateButtonText == Check("validateButtonText", validateButtonText(args.buttons))

FormatValidationErrors ==
    /\ pc = "called"
    /\ tool = "formatValidationErrors"
    /\ response' = Some(formatValidationErrors(args.validation))
    /\ pc' = "returned"
    /\ UNCHANGED <<tool, args, template_data, result, count, posted>>

ValidateFormatting == Check("validateFormatting", validateFormatting(args.text))

CreateMessageTemplateEnhanced ==
    /\ pc = "called"
    /\ tool = "create_message_template_enhanced"
    /\ \E reply \in ProviderReplies :
          Return(create_message_template_enhanced(
                     args.name, args.category, args.language, args.body_text,
                     args.header_text, args.footer_text, args.buttons,
                     args.example_values, reply))

ValidateTemplateData ==
    /\ pc = "called"
    /\ tool = "validate_template_data"
    /\ response' = Some(validate_template_data(
                            args.name, args.category, args.language, args.body_text,
                            args.header_text, args.footer_text, args.buttons))
    /\ pc' = "returned"
    /\ UNCHANGED <<tool, args, template_data, result, count, posted>>

Next ==
    \/ CreateMessageTemplate
    \/ CreateCarouselTemplate
    \/ ValidateCompleteTemplate
    \/ ValidateEmojiLimit
    \/ CountEmojis
    \/ ValidateCharacterLimits
    \/ ValidateVariableExamples
    \/ ValidateCarouselConsistency
    \/ ValidateButtonCombinations
    \/ ValidateUrls
    \/ ValidatePhoneNumbers
    \/ ValidateTemplateName
    \/ ValidateLanguageCode
    \/ ValidateMediaHeaders
    \/ ValidateButtonText
    \/ FormatValidationErrors
    \/ ValidateFormatting
    \/ CreateMessageTemplateEnhanced
    \/ ValidateTemplateData

Spec == Init /\ [][Next]_vars

---------------------------------------------------------------------------
(* Claims                                                                  *)

\* C1: create_message_template POSTs to the provider only if
\* validateCompleteTemplate accepted the template built from its arguments;
\* when validation fails it returns the formatValidationErrors response and
\* issues no request.
C1_PostOnlyIfValid ==
    (pc = "returned" /\ tool = "create_message_template") =>
        LET built == TemplateData(args.name, upper(args.category), args.language,
                                  args.components)
            v == validateCompleteTemplate(built)
        IN  /\ posted # <<>> => v.isValid
            /\ ~v.isValid =>
                  /\ posted = <<>>
                  /\ response = Some(formatValidationErrors(v))
                  /\ The(response).validation_errors # None
            /\ v.isValid => posted = <<built>>

C1_Witness ==
    /\ pc = "returned"
    /\ tool = "create_message_template"
    /\ ~The(result).isValid
    /\ The(response).success = Some(FALSE)
    /\ posted = <<>>

\* C2: a create_carousel_template call whose name, category, language, body
\* text, card texts and card buttons satisfy every per-field rule and whose 2
\* to 10 cards have identical structure passes validation and is POSTed (one
\* BODY component plus one CAROUSEL component per card) instead of getting a
\* validation_errors response.
C2_ValidCarouselIsPosted ==
    (/\ pc = "returned"
     /\ tool = "create_carousel_template"
     /\ validateCarouselConsistency(args.cards).isValid
     /\ validateTemplateName(args.name).isValid
     /\ validateTemplateCategory(args.category).isValid
     /\ validateLanguageCode(args.language).isValid
     /\ validateCharacterLimits("body", args.body_text).isValid
     /\ validateFormatting(args.body_text).isValid
     /\ validateEmojiLimit(<<args.body_text>> \o CardTexts(args.cards)).isValid
     /\ validateButtonText(CardButtons(args.cards)).isValid
     /\ validateUrls(CardButtons(args.cards)).isValid
     /\ validatePhoneNumbers(CardButtons(args.cards)).isValid
     /\ \A i \in 1..Len(args.cards) :
           /\ validateCharacterLimits("body", args.cards[i].body_text).isValid
           /\ validateFormatting(args.cards[i].body_text).isValid
           /\ validateMediaHeaders(args.cards[i].header).isValid)
    => /\ The(response).validation_errors = None
       /\ Len(posted) = 1
       /\ Len(posted[1].components) = 1 + Len(args.cards)

\* C3: validateCompleteTemplate never short-circuits: the error of every check
\* it applies and that fails on the input is in the returned errors list,
\* whatever failed before it; an over-long body, a non-HTTPS URL button and
\* more than 10 emojis together yield at least three entries.
C3_EveryFailedCheckReported ==
    (pc = "returned" /\ template_data # None) =>
        LET td == The(template_data)
            comps == td.components
            errs == IF The(result).errors = None THEN <<>> ELSE The(The(result).errors)
            Has(e) == \E i \in 1..Len(errs) : errs[i] = e
            Reported(v) == ~v.isValid => Has(The(v.error))
            AllReported(v) ==
                (~v.isValid /\ v.errors # None) =>
                    \A k \in 1..Len(The(v.errors)) : Has(The(v.errors)[k])
            isAuth == lower(td.category) = lower(Authentication)
        IN  /\ Reported(validateTemplateName(td.name))
            /\ Reported(validateTemplateCategory(td.category))
            /\ Reported(validateLanguageCode(td.language))
            /\ Reported(validateComponentStructure(comps))
            /\ \A i \in 1..Len(comps) :
                  LET c == comps[i] IN
                  /\ c.type = "BODY" =>
                        /\ Reported(validateCharacterLimits("body", c.text))
                        /\ AllReported(validateFormatting(c.text))
                  /\ (c.type = "HEADER" /\ c.format = "TEXT") =>
                        /\ Reported(validateCharacterLimits("header", c.text))
                        /\ AllReported(validateFormatting(c.text))
                  /\ c.type = "HEADER" => Reported(validateMediaHeaders(Some(c)))
                  /\ c.type = "FOOTER" =>
                        /\ Reported(validateCharacterLimits("footer", c.text))
                        /\ AllReported(validateFormatting(c.text))
                  /\ c.type = "BUTTONS" =>
                        /\ Reported(validateButtonText(c.buttons))
                        /\ Reported(validateUrls(c.buttons))
                        /\ Reported(validatePhoneNumbers(c.buttons))
            /\ Reported(validateEmojiLimit(AllText(comps)))
            /\ isAuth => Reported(validateAuthenticationFormat(FirstBodyText(comps)))
            /\ (/\ \E i \in 1..Len(comps) :
                       comps[i].type = "BODY" /\ Len(comps[i].text) > 550
                 /\ \E j \in 1..Len(comps) :
                       /\ comps[j].type = "BUTTONS"
                       /\ ~validateUrls(comps[j].buttons).isValid
                 /\ SumEmojis(AllText(comps)) > 10)
               => Len(errs) >= 3

C3_Witness ==
    /\ pc = "returned"
    /\ tool = "validateCompleteTemplate"
    /\ LET errs == IF The(result).errors = None THEN <<>> ELSE The(The(result).errors)
           HasMsg(m) == \E i \in 1..Len(errs) : errs[i].msg = m
       IN  /\ HasMsg("body exceeds character limit")
           /\ HasMsg("URL must use HTTPS")
           /\ HasMsg("Template has too many emojis, maximum 10 allowed")
           /\ HasMsg("Template name must be lowercase letters, numbers, underscores only")

\* C4: in every result of validateCompleteTemplate isValid is true exactly
\* when no applied check failed; a valid result has errors = None, an invalid
\* one a non-empty errors list, and the single-error field is never set.
C4_VerdictMatchesErrors ==
    (pc = "returned" /\ template_data # None) =>
        LET td == The(template_data)
            comps == td.components
            r == The(result)
            componentPasses(c) ==
                /\ c.type = "BODY" =>
                      /\ validateCharacterLimits("body", c.text).isValid
                      /\ validateFormatting(c.text).isValid
                /\ (c.type = "HEADER" /\ c.format = "TEXT") =>
                      /\ validateCharacterLimits("header", c.text).isValid
                      /\ validateFormatting(c.text).isValid
                /\ c.type = "HEADER" => validateMediaHeaders(Some(c)).isValid
                /\ c.type = "FOOTER" =>
                      /\ validateCharacterLimits("footer", c.text).isValid
                      /\ validateFormatting(c.text).isValid
                /\ c.type = "BUTTONS" =>
                      /\ validateButtonText(c.buttons).isValid
                      /\ validateUrls(c.buttons).isValid
                      /\ validatePhoneNumbers(c.buttons).isValid
                      /\ validateButtonCombinations("TEMPLATE", c.buttons).isValid
            noCheckFailed ==
                /\ validateTemplateName(td.name).isValid
                /\ validateTemplateCategory(td.category).isValid
                /\ validateLanguageCode(td.language).isValid
                /\ validateComponentStructure(comps).isValid
                /\ \A i \in 1..Len(comps) : componentPasses(comps[i])
                /\ validateEmojiLimit(AllText(comps)).isValid
                /\ lower(td.category) = lower(Authentication) =>
                      validateAuthenticationFormat(FirstBodyText(comps)).isValid
        IN  /\ r.isValid <=> noCheckFailed
            /\ r.isValid => r.errors = None
            /\ ~r.isValid => (r.errors # None /\ Len(The(r.errors)) > 0)
            /\ r.error = None

C4_Witness ==
    /\ pc = "returned"
    /\ tool = "validateCompleteTemplate"
    /\ The(result).isValid
    /\ The(result).errors = None
    /\ Len(args.components) >= 3

\* C5: the component structure check passes iff the list has at least one BODY
\* and no kind other than BUTTONS occurs more than once; hence an accepted
\* template has exactly one BODY, at most one HEADER and at most one FOOTER.
C5_StructureRule ==
    (pc = "returned" /\ template_data # None) =>
        LET comps == The(template_data).components
            errs == IF The(result).errors = None THEN <<>> ELSE The(The(result).errors)
            structureError ==
                \E i \in 1..Len(errs) :
                    errs[i].msg \in {"BODY component is required for all templates",
                                     "Duplicate components not allowed"}
            Number(t) == Cardinality({i \in 1..Len(comps) : comps[i].type = t})
            wellFormed ==
                /\ Number("BODY") >= 1
                /\ \A i \in 1..Len(comps) :
                      comps[i].type # "BUTTONS" => Number(comps[i].type) = 1
        IN  /\ validateComponentStructure(comps).isValid <=> wellFormed
            /\ structureError <=> ~wellFormed
            /\ The(result).isValid =>
                  /\ Number("BODY") = 1
                  /\ Number("HEADER") <= 1
                  /\ Number("FOOTER") <= 1

C5_Witness ==
    /\ pc = "returned"
    /\ tool = "create_message_template"
    /\ The(result).isValid
    /\ posted # <<>>
    /\ Cardinality({i \in 1..Len(args.components) :
                       args.components[i].type = "BUTTONS"}) = 2
    /\ Cardinality({i \in 1..Len(args.components) :
                       args.components[i].type = "BODY"}) = 1

\* C6: every template accepted by validateCompleteTemplate has, in each of its
\* text fields, placeholders whose indices form the contiguous sequence 1..k;
\* a body with {{1}} and {{3}} only is rejected.
C6_AcceptedPlaceholdersSequential ==
    (pc = "returned" /\ template_data # None /\ The(result).isValid) =>
        LET texts == AllText(The(template_data).components)
            Sequential(text) ==
                LET v == validateVariableExamples(text, <<>>) IN
                v.isValid
                \/ The(v.error).msg # "Variables must be sequential starting from {1}"
        IN  \A i \in 1..Len(texts) : Sequential(texts[i])

\* C7: the emoji-limit check of validateCompleteTemplate sums the emoji counts
\* of every textual field (TEXT header, body, footer and every button text)
\* and adds its error exactly when that whole-template sum exceeds 10.
C7_EmojiLimitOverWholeTemplate ==
    (pc = "returned" /\ template_data # None) =>
        LET comps == The(template_data).components
            errs == IF The(result).errors = None THEN <<>> ELSE The(The(result).errors)
            emojiError ==
                \E i \in 1..Len(errs) :
                    errs[i].msg = "Template has too many emojis, maximum 10 allowed"
            FieldCount(c) ==
                IF \/ c.type = "BODY"
                   \/ c.type = "FOOTER"
                   \/ c.type = "HEADER" /\ c.format = "TEXT"
                THEN countEmojis(c.text)
                ELSE IF c.type = "BUTTONS"
                THEN SumEmojis([k \in 1..Len(c.buttons) |-> c.buttons[k].text])
                ELSE 0
            Sum[n \in 0..Len(comps)] ==
                IF n = 0 THEN 0 ELSE Sum[n - 1] + FieldCount(comps[n])
            total == Sum[Len(comps)]
        IN  emojiError <=> total > 10

C9_CountsCodePoints ==
    (pc = "returned" /\ tool = "countEmojis") =>
        LET text == args.text IN
        /\ The(count) = Cardinality({i \in 1..Len(text) : IsEmoji(text[i])})
        /\ \A k \in 0..Len(text) :
              The(count) = countEmojis(SubSeq(text, 1, k))
                           + countEmojis(SubSeq(text, k + 1, Len(text)))

\* C10: a template of category AUTHENTICATION (compared without regard to
\* case) gets the authentication-format error exactly when its BODY text does
\* not start with the required phrase (also when it has no BODY); templates
\* of other categories never get it; so every accepted AUTHENTICATION template
\* has a BODY that starts with the phrase.
C10_AuthenticationPhrase ==
    (pc = "returned" /\ template_data # None) =>
        LET td == The(template_data)
            comps == td.components
            errs == IF The(result).errors = None THEN <<>> ELSE The(The(result).errors)
            authError ==
                \E i \in 1..Len(errs) :
                    errs[i].msg = "Authentication template must start with the required phrase"
            isAuth == lower(td.category) = Str("authentication")
            bodies == {i \in 1..Len(comps) : comps[i].type = "BODY"}
            firstBodyHasPhrase ==
                /\ bodies # {}
                /\ LET b == CHOOSE i \in bodies : \A j \in bodies : i <= j IN
                   /\ Len(comps[b].text) >= 31
                   /\ SubSeq(comps[b].text, 1, 31) = Str("{{1}} is your verification code")
        IN  /\ isAuth => (authError <=> ~firstBodyHasPhrase)
            /\ ~isAuth => ~authError
            /\ (isAuth /\ The(result).isValid) =>
                  \A i \in bodies :
                      SubSeq(comps[i].text, 1, 31) = Str("{{1}} is your verification code")

C10_Witness ==
    /\ pc = "returned"
    /\ tool = "validateCompleteTemplate"
    /\ args.category = Str("authentication")
    /\ The(result).isValid
    /\ \E i \in 1..Len(args.components) : args.components[i].type = "BODY"

\* C11: validateCharacterLimits(kind, t) is valid iff len(t) is at most the
\* limit of the kind (body 550, header 60, footer 60, button 20: a text of
\* exactly the limit passes, one character more fails), and is invalid for
\* every kind outside these four whatever the text.
C11_CharacterLimits ==
    (pc = "returned" /\ tool = "validateCharacterLimits") =>
        LET kind == args.component
            valid == The(result).isValid
        IN  /\ kind = "body" => (valid <=> Len(args.text) <= 550)
            /\ kind \in {"header", "footer"} => (valid <=> Len(args.text) <= 60)
            /\ kind = "button" => (valid <=> Len(args.text) <= 20)
            /\ kind \notin {"body", "header", "footer", "button"} => ~valid

C11_Witness ==
    /\ pc = "returned"
    /\ tool = "validateCharacterLimits"
    /\ args.component = "body"
    /\ Len(args.text) = 550
    /\ The(result).isValid

\* C12: validateVariableExamples(text, examples) is valid iff the indices of
\* the k placeholder occurrences of text are exactly 1..k, each once, and
\* there are k examples; a sequencing failure and an example-count mismatch
\* are different failures, and a gap or repeat is reported as a sequencing
\* failure whatever the number of examples.
C12_VariablesAndExamples ==
    (pc = "returned" /\ tool = "validateVariableExamples") =>
        LET where == VariableMatches(args.text)
            k == Cardinality(where)
            sequential == {VariableAt(args.text, p) : p \in where} = 1..k
            v == The(result)
        IN  /\ v.isValid <=> (sequential /\ Len(args.examples) = k)
            /\ ~sequential =>
                  The(v.error).msg = "Variables must be sequential starting from {1}"
            /\ (sequential /\ Len(args.examples) # k) =>
                  /\ The(v.error).msg = "Variable count doesn't match example count"
                  /\ The(v.error).num = k

C12_Witness ==
    /\ pc = "returned"
    /\ tool = "validateVariableExamples"
    /\ args.text = Str("Hi {{1}} and {{3}}")
    /\ Len(args.examples) = 2
    /\ ~The(result).isValid
    /\ The(The(result).error).msg = "Variables must be sequential starting from {1}"

\* C13: validateCarouselConsistency(cards) is valid iff there are 2 to 10
\* cards and every card agrees with card 1 on header presence, header format,
\* number of buttons and the button types with their multiplicities; on a
\* mismatch the failure names the 1-based index of the first card that differs.
C13_CarouselConsistency ==
    (pc = "returned" /\ tool = "validateCarouselConsistency") =>
        LET cards == args.cards
            v == The(result)
            Format(card) == IF card.header = None THEN "" ELSE The(card.header).format
            Times(card, t) ==
                Cardinality({i \in 1..Len(card.buttons) : card.buttons[i].type = t})
            Same(a, b) ==
                /\ (a.header = None) <=> (b.header = None)
                /\ Format(a) = Format(b)
                /\ Len(a.buttons) = Len(b.buttons)
                /\ \A t \in ButtonTypes : Times(a, t) = Times(b, t)
            inRange == Len(cards) >= 2 /\ Len(cards) <= 10
        IN  /\ v.isValid <=>
                  (inRange /\ \A i \in 1..Len(cards) : Same(cards[i], cards[1]))
            /\ \A i \in 2..Len(cards) :
                  (/\ inRange
                   /\ ~Same(cards[i], cards[1])
                   /\ \A j \in 2..(i - 1) : Same(cards[j], cards[1]))
                  => The(v.error).num = i

C13_Witness ==
    /\ pc = "returned"
    /\ tool = "validateCarouselConsistency"
    /\ Len(args.cards) = 10
    /\ args.cards[4].header # None
    /\ args.cards[9].header # None
    /\ args.cards[1].header = None
    /\ ~The(result).isValid
    /\ The(The(result).error).num = 4

C15_EveryUrlButtonHttps ==
    (pc = "returned" /\ tool = "validateUrls") =>
        (The(result).isValid <=>
            \A i \in 1..Len(args.buttons) :
                args.buttons[i].type = "URL" =>
                    /\ startswith(args.buttons[i].url, Str("https://"))
                    /\ Len(args.buttons[i].url) <= 2000)

\* C16: validatePhoneNumbers(buttons) is valid iff every button of type
\* PHONE_NUMBER has a phone_number that is a plus sign followed by 10 to 15
\* digits and nothing else: no separator, no trailing line break, not empty
\* or missing.
C16_EveryPhoneInternational ==
    (pc = "returned" /\ tool = "validatePhoneNumbers") =>
        (The(result).isValid <=>
            \A i \in 1..Len(args.buttons) :
                args.buttons[i].type = "PHONE_NUMBER" =>
                    LET phone == args.buttons[i].phone_number IN
                    /\ Len(phone) >= 11 /\ Len(phone) <= 16
                    /\ phone[1] = 43
                    /\ \A j \in 2..Len(phone) : IsDigit(phone[j]))

\* C17: validateTemplateName(name) is valid iff name is non-empty, every
\* character of it is a lowercase letter a-z, a digit 0-9 or an underscore
\* (uppercase, hyphen and a trailing line break are rejected), and it has at
\* most 512 characters.
C17_NameCharactersAndLength ==
    (pc = "returned" /\ tool = "validateTemplateName") =>
        (The(result).isValid <=>
            /\ Len(args.name) >= 1
            /\ Len(args.name) <= 512
            /\ \A i \in 1..Len(args.name) :
                  \/ args.name[i] >= 97 /\ args.name[i] <= 122
                  \/ args.name[i] >= 48 /\ args.name[i] <= 57
                  \/ args.name[i] = 95)

\* C18: validateLanguageCode(language) is valid iff language is exactly five
\* characters: two lowercase letters, an underscore, two uppercase letters;
\* any extra leading or trailing character fails.
C18_LanguageExactlyFive ==
    (pc = "returned" /\ tool = "validateLanguageCode") =>
        LET l == args.language IN
        (The(result).isValid <=>
            /\ Len(l) = 5
            /\ l[1] >= 97 /\ l[1] <= 122 /\ l[2] >= 97 /\ l[2] <= 122
            /\ l[3] = 95
            /\ l[4] >= 65 /\ l[4] <= 90 /\ l[5] >= 65 /\ l[5] <= 90)

\* C19: validateMediaHeaders(header) passes when the header is absent or its
\* format is TEXT; any other header is valid iff its example URL starts with
\* https:// and ends with an extension allowed for its format (IMAGE: .jpg,
\* .jpeg, .png; VIDEO: .mp4; DOCUMENT: .pdf), so a media header without an
\* example URL or with an undeclared format does not pass.
C19_MediaHeaderUrl ==
    (pc = "returned" /\ tool = "validateMediaHeaders") =>
        LET valid == The(result).isValid IN
        IF args.header = None THEN valid
        ELSE LET h == The(args.header)
                 Ends(suffixes) ==
                     /\ h.header_url # <<>>
                     /\ startswith(h.header_url[1], Str("https://"))
                     /\ \E x \in suffixes : endswith(lower(h.header_url[1]), Str(x))
             IN  IF h.format = "TEXT" THEN valid
                 ELSE valid <=>
                        \/ h.format = "IMAGE" /\ Ends({".jpg", ".jpeg", ".png"})
                        \/ h.format = "VIDEO" /\ Ends({".mp4"})
                        \/ h.format = "DOCUMENT" /\ Ends({".pdf"})

\* C20: validateButtonText(buttons) is valid iff no button text contains an
\* emoji character, one of the markup characters (asterisk, underscore,
\* tilde, backquote, opening or closing brace) or a line break; buttons with
\* empty or missing text are ignored.
C20_ButtonTextPlain ==
    (pc = "returned" /\ tool = "validateButtonText") =>
        (The(result).isValid <=>
            \A i \in 1..Len(args.buttons) :
                \A j \in 1..Len(args.buttons[i].text) :
                    LET c == args.buttons[i].text[j] IN
                    /\ ~IsEmoji(c)
                    /\ c \notin {42, 95, 126, 96, 123, 125}
                    /\ c # 10)

C20_Witness ==
    /\ pc = "returned"
    /\ tool = "validateButtonText"
    /\ Len(args.buttons) = 2
    /\ args.buttons[1].text = <<>>
    /\ args.buttons[2].text = Str("Yes\nNo")
    /\ ~The(result).isValid
    /\ The(The(result).error).msg = "Button contains line breaks"

\* C21: formatValidationErrors(result) returns success = true with no error
\* records iff result.isValid; otherwise success = false with one record per
\* entry of result.errors in the same order, or a single record for
\* result.error when there is no errors list; every record's field is the
\* literal template.
C21_FormattedErrors ==
    (pc = "returned" /\ tool = "formatValidationErrors") =>
        LET v == args.validation
            r == The(response)
            listed == IF v.errors = None THEN <<>> ELSE The(v.errors)
        IN  /\ (r.success = Some(TRUE) /\ r.validation_errors = None) <=> v.isValid
            /\ ~v.isValid =>
                  /\ r.success = Some(FALSE)
                  /\ r.validation_errors # None
                  /\ \A i \in 1..Len(The(r.validation_errors)) :
                        The(r.validation_errors)[i].field = "template"
                  /\ IF listed # <<>>
                     THEN /\ Len(The(r.validation_errors)) = Len(listed)
                          /\ \A i \in 1..Len(listed) :
                                The(r.validation_errors)[i].message = Some(listed[i])
                     ELSE /\ Len(The(r.validation_errors)) = 1
                          /\ The(r.validation_errors)[1].message = v.error

C21_Witness ==
    /\ pc = "returned"
    /\ tool = "formatValidationErrors"
    /\ ~args.validation.isValid
    /\ args.validation.errors # None
    /\ Len(The(args.validation.errors)) = 3
    /\ The(args.validation.errors)[1] # The(args.validation.errors)[2]
    /\ Len(The(The(response).validation_errors)) = 3

\* C22: validateFormatting flags unbalanced inline markup: whenever a marker
\* character (asterisk, underscore or tilde) occurs three or more times in
\* the text and its occurrences cannot all be paired (an odd count), the
\* result is invalid and contains the error of that marker family.
C22_UnbalancedMarkupFlagged ==
    (pc = "returned" /\ tool = "validateFormatting") =>
        LET v == The(result)
            errs == IF v.errors = None THEN <<>> ELSE The(v.errors)
            Flagged(msg) == \E i \in 1..Len(errs) : errs[i].msg = msg
            Unbalanced(m) ==
                LET n == Cardinality({i \in 1..Len(args.text) : args.text[i] = m})
                IN  n >= 3 /\ n % 2 = 1
        IN  /\ Unbalanced(42) => (~v.isValid /\ Flagged("Invalid bold formatting"))
            /\ Unbalanced(95) => (~v.isValid /\ Flagged("Invalid italic formatting"))
            /\ Unbalanced(126) =>
                  (~v.isValid /\ Flagged("Invalid strikethrough formatting"))

C23_LongButtonTextRejected ==
    (/\ pc = "returned"
     /\ tool = "create_message_template_enhanced"
     /\ \E i \in 1..Len(args.buttons) : Len(args.buttons[i].text) > 20) =>
        LET r == The(response)
            records == IF r.validation_errors = None THEN <<>>
                       ELSE The(r.validation_errors)
        IN  /\ posted = <<>>
            /\ r.success = Some(FALSE)
            /\ \E i \in 1..Len(records) :
                  The(records[i].message).msg = "button exceeds character limit"

\* C27: for all arguments, the dry-run tool validate_template_data reports
\* success iff validateCompleteTemplate accepts the component list that
\* create_message_template_enhanced builds from the same arguments: the dry
\* run and the creation path never disagree on whether a template is valid.
C27_DryRunAgreesWithCreation ==
    (pc = "returned" /\ tool = "validate_template_data") =>
        LET components == EnhancedComponents(args.body_text, args.header_text,
                                             args.footer_text, args.buttons, None)
            built == TemplateData(args.name, upper(args.category), args.language,
                                  components)
        IN  (The(response).success = Some(TRUE))
                <=> validateCompleteTemplate(built).isValid

\* C24: create_carousel_template validates every card with the per-field
\* rules of a flat template: each card body against the 550-character body
\* limit and the formatting rules, each card's buttons against the button
\* text, URL and phone-number rules; when the template-level checks pass and
\* some card breaks such a rule, the response reports an error of a rule that
\* a card breaks.
C24_CardsCheckedPerField ==
    (/\ pc = "returned"
     /\ tool = "create_carousel_template"
     /\ validateCarouselConsistency(args.cards).isValid
     /\ validateEmojiLimit(<<args.body_text>> \o CardTexts(args.cards)).isValid
     /\ validateCharacterLimits("body", args.body_text).isValid
     /\ validateFormatting(args.body_text).isValid
     /\ validateTemplateName(args.name).isValid
     /\ validateTemplateCategory(args.category).isValid
     /\ validateLanguageCode(args.language).isValid) =>
        LET Messages(errs) == {errs[k].msg : k \in 1..Len(errs)}
            CardMessages(card) ==
                Messages(ErrorOf(validateCharacterLimits("body", card.body_text)))
                \cup Messages(ErrorsOf(validateFormatting(card.body_text)))
                \cup Messages(ErrorOf(validateButtonText(card.buttons)))
                \cup Messages(ErrorOf(validateUrls(card.buttons)))
                \cup Messages(ErrorOf(validatePhoneNumbers(card.buttons)))
            broken == UNION {CardMessages(args.cards[i]) : i \in 1..Len(args.cards)}
            r == The(response)
            records == IF r.validation_errors = None THEN <<>>
                       ELSE The(r.validation_errors)
        IN  broken # {} =>
                /\ posted = <<>>
                /\ \E i \in 1..Len(records) : The(records[i].message).msg \in broken

\* C25: the errors list of validateCompleteTemplate follows the fixed
\* pipeline: name, category, language, component structure, then the errors
\* of each component in input order (within a component length before
\* formatting; for BUTTONS text, URL, phone), then the emoji-limit error, then
\* the authentication-format error; the emoji-limit error occurs at most once
\* and never before a per-component error.
C25_ErrorsInPipelineOrder ==
    (pc = "returned" /\ template_data # None) =>
        LET comps == The(template_data).components
            errs == IF The(result).errors = None THEN <<>> ELSE The(The(result).errors)
            Stage(e) ==
                IF e.msg \in {"Template name must be lowercase letters, numbers, underscores only",
                              "Template name exceeds 512 characters"} THEN 1
                ELSE IF e.msg = "Invalid category" THEN 2
                ELSE IF e.msg = "Invalid language code format" THEN 3
                ELSE IF e.msg \in {"BODY component is required for all templates",
                                   "Duplicate components not allowed"} THEN 4
                ELSE IF e.msg = "Template has too many emojis, maximum 10 allowed" THEN 6
                ELSE IF e.msg = "Authentication template must start with the required phrase"
                     THEN 7
                ELSE 5
            Of(c) ==
                IF c.type = "BODY"
                THEN ErrorOf(validateCharacterLimits("body", c.text))
                     \o ErrorsOf(validateFormatting(c.text))
                ELSE IF c.type = "HEADER" /\ c.format = "TEXT"
                THEN ErrorOf(validateCharacterLimits("header", c.text))
                     \o ErrorsOf(validateFormatting(c.text))
                ELSE IF c.type = "HEADER"
                THEN ErrorOf(validateMediaHeaders(Some(c)))
                ELSE IF c.type = "FOOTER"
                THEN ErrorOf(validateCharacterLimits("footer", c.text))
                     \o ErrorsOf(validateFormatting(c.text))
                ELSE IF c.type = "BUTTONS"
                THEN ErrorOf(validateButtonText(c.buttons))
                     \o ErrorOf(validateUrls(c.buttons))
                     \o ErrorOf(validatePhoneNumbers(c.buttons))
                ELSE <<>>
            InOrder[n \in 0..Len(comps)] ==
                IF n = 0 THEN <<>> ELSE InOrder[n - 1] \o Of(comps[n])
            perComponent == SelectSeq(errs, LAMBDA e : Stage(e) = 5)
        IN  /\ \A i, j \in 1..Len(errs) : i < j => Stage(errs[i]) <= Stage(errs[j])
            /\ \A s \in {1, 2, 3, 4, 6, 7} :
                  Cardinality({i \in 1..Len(errs) : Stage(errs[i]) = s}) <= 1
            /\ perComponent = InOrder[Len(comps)]

C25_Witness ==
    /\ pc = "returned"
    /\ tool = "validateCompleteTemplate"
    /\ template_data # None
    /\ The(result).errors # None
    /\ LET errs == The(The(result).errors)
       IN  /\ Len(errs) >= 6
           /\ errs[1].msg = "Template name must be lowercase letters, numbers, underscores only"
           /\ errs[Len(errs)].msg =
                  "Authentication template must start with the required phrase"
           /\ errs[Len(errs) - 1].msg = "Template has too many emojis, maximum 10 allowed"
           /\ \E i, j \in 1..Len(errs) :
                  /\ i < j
                  /\ errs[i].msg = "body exceeds character limit"
                  /\ errs[j].msg = "URL must use HTTPS"

\* C26: create_carousel_template stops at the first failing check in the
\* fixed order carousel consistency, emoji limit, body length, body
\* formatting, button text, URLs, phone numbers, name, category, language,
\* complete-template validation: the response contains only that check's
\* errors, later checks are not reported even when they would fail, and no
\* request is sent.
C26_CarouselStopsAtFirstFailure ==
    (pc = "returned" /\ tool = "create_carousel_template") =>
        LET all_buttons == CardButtons(args.cards)
            components == <<Component("BODY", "", args.body_text, <<>>, <<>>)>>
                          \o [i \in 1..Len(args.cards) |-> CardComponent(args.cards, i)]
            checks ==
                <<validateCarouselConsistency(args.cards),
                  validateEmojiLimit(<<args.body_text>> \o CardTexts(args.cards)),
                  validateCharacterLimits("body", args.body_text),
                  validateFormatting(args.body_text),
                  validateButtonText(all_buttons),
                  validateUrls(all_buttons),
                  validatePhoneNumbers(all_buttons),
                  validateTemplateName(args.name),
                  validateTemplateCategory(args.category),
                  validateLanguageCode(args.language),
                  validateCompleteTemplate(
                      TemplateData(args.name, upper(args.category), args.language,
                                   components))>>
            failing == {i \in 1..Len(checks) : ~checks[i].isValid}
        IN  IF failing = {} THEN Len(posted) = 1
            ELSE LET first == CHOOSE i \in failing : \A j \in failing : i <= j
                     v == checks[first]
                     expected == IF v.errors # None THEN The(v.errors)
                                 ELSE <<The(v.error)>>
                     records == The(The(response).validation_errors)
                 IN  /\ posted = <<>>
                     /\ The(response).success = Some(FALSE)
                     /\ Len(records) = Len(expected)
                     /\ \A i \in 1..Len(expected) :
                           records[i].message = Some(expected[i])

C26_Witness ==
    /\ pc = "returned"
    /\ tool = "create_carousel_template"
    /\ validateCarouselConsistency(args.cards).isValid
    /\ ~validateFormatting(args.body_text).isValid
    /\ ~validateTemplateName(args.name).isValid
    /\ ~validateLanguageCode(args.language).isValid
    /\ posted = <<>>
    /\ Len(The(The(response).validation_errors)) = 1
    /\ The(The(The(response).validation_errors)[1].message).msg = "Invalid bold formatting"

\* C29: the carousel button-type whitelist is enforced on no creation path:
\* validateCompleteTemplate calls validateButtonCombinations with template
\* type TEMPLATE, for which every button list is valid, and
\* create_carousel_template never calls it, so no validation result and no
\* response carries a button-combination error (URL together with
\* PHONE_NUMBER is accepted).
C29_WhitelistNeverEnforced ==
    /\ (pc = "returned" /\ tool = "validateButtonCombinations"
            /\ args.templateType = "TEMPLATE") => The(result).isValid
    /\ (pc = "returned"
            /\ tool \in {"create_message_template", "create_message_template_enhanced",
                          "create_carousel_template", "validateCompleteTemplate"}) =>
          LET Combination(e) == e.msg = "Invalid carousel button combination"
              errs == IF result = None \/ The(result).errors = None THEN <<>>
                      ELSE The(The(result).errors)
              records == IF response = None \/ The(response).validation_errors = None
                         THEN <<>> ELSE The(The(response).validation_errors)
          IN  /\ \A i \in 1..Len(errs) : ~Combination(errs[i])
              /\ result # None =>
                    (The(result).error = None \/ ~Combination(The(The(result).error)))
              /\ \A i \in 1..Len(records) : ~Combination(The(records[i].message))

C29_Witness ==
    /\ pc = "returned"
    /\ tool = "create_message_template_enhanced"
    /\ \E i, j \in 1..Len(args.buttons) :
          args.buttons[i].type = "URL" /\ args.buttons[j].type = "PHONE_NUMBER"
    /\ ~validateButtonCombinations("CAROUSEL", args.buttons).isValid
    /\ The(result).isValid
    /\ Len(posted) = 1

\* C30: each per-button rule (validateButtonText, validateUrls,
\* validatePhoneNumbers) returns at the first offending button in list order
\* (for button text: emoji before markup before line break), so for one
\* BUTTONS component validateCompleteTemplate appends at most one error per
\* rule, at most three in all, however many buttons break the rules.
C30_FirstOffendingButton ==
    LET First(S) == CHOOSE i \in S : \A j \in S : i <= j
        HasEmoji(t) == \E k \in 1..Len(t) : IsEmoji(t[k])
        HasMarkup(t) == \E k \in 1..Len(t) : t[k] \in {42, 95, 126, 96, 123, 125}
        HasBreak(t) == \E k \in 1..Len(t) : t[k] = 10
        TextRule == {"Button contains emojis", "Button contains formatting characters",
                     "Button contains line breaks"}
        UrlRule == {"URL must use HTTPS", "URL exceeds 2000 character limit"}
        PhoneRule == {"Phone number must be international format with +"}
    IN  /\ (pc = "returned" /\ tool = "validateButtonText") =>
              LET b == args.buttons
                  bad == {i \in 1..Len(b) :
                             HasEmoji(b[i].text) \/ HasMarkup(b[i].text)
                             \/ HasBreak(b[i].text)}
              IN  bad # {} =>
                      LET t == b[First(bad)].text
                          err == The(The(result).error)
                      IN  /\ err.txt = t
                          /\ err.msg = IF HasEmoji(t) THEN "Button contains emojis"
                                       ELSE IF HasMarkup(t)
                                       THEN "Button contains formatting characters"
                                       ELSE "Button contains line breaks"
        /\ (pc = "returned" /\ tool = "validateUrls") =>
              LET b == args.buttons
                  bad == {i \in 1..Len(b) :
                             /\ b[i].type = "URL" /\ b[i].url # <<>>
                             /\ (~startswith(b[i].url, Str("https://"))
                                 \/ Len(b[i].url) > 2000)}
              IN  bad # {} =>
                      LET u == b[First(bad)].url
                          err == The(The(result).error)
                      IN  IF ~startswith(u, Str("https://"))
                          THEN err.msg = "URL must use HTTPS" /\ err.txt = u
                          ELSE err.msg = "URL exceeds 2000 character limit"
                               /\ err.num = Len(u)
        /\ (pc = "returned" /\ tool = "validatePhoneNumbers") =>
              (~The(result).isValid =>
                  LET b == args.buttons
                      err == The(The(result).error)
                      at == {i \in 1..Len(b) :
                                b[i].type = "PHONE_NUMBER" /\ b[i].phone_number = err.txt}
                  IN  /\ at # {}
                      /\ \A j \in 1..(First(at) - 1) :
                            validatePhoneNumbers(<<b[j]>>).isValid)
        /\ (pc = "returned" /\ template_data # None) =>
              LET comps == The(template_data).components
                  errs == IF The(result).errors = None THEN <<>>
                          ELSE The(The(result).errors)
                  Count(rule) == Cardinality({i \in 1..Len(errs) : errs[i].msg \in rule})
                  groups == Cardinality({i \in 1..Len(comps) : comps[i].type = "BUTTONS"})
              IN  /\ Count(TextRule) <= groups
                  /\ Count(UrlRule) <= groups
                  /\ Count(PhoneRule) <= groups
                  /\ groups = 1 => Count(TextRule \cup UrlRule \cup PhoneRule) <= 3

C30_Witness ==
    /\ pc = "returned"
    /\ tool = "create_message_template_enhanced"
    /\ Cardinality({i \in 1..Len(args.buttons) :
                       ~validateUrls(<<args.buttons[i]>>).isValid}) >= 2
    /\ Cardinality({i \in 1..Len(args.buttons) :
                       ~validateButtonText(<<args.buttons[i]>>).isValid}) >= 2
    /\ Cardinality({i \in 1..Len(args.buttons) :
                       ~validatePhoneNumbers(<<args.buttons[i]>>).isValid}) >= 2
    /\ The(result).errors # None
    /\ Cardinality({i \in 1..Len(The(The(result).errors)) :
                       The(The(result).errors)[i].msg
                           \in {"Button contains emojis", "URL must use HTTPS",
                                "Phone number must be international format with +"}}) = 3

===========================================================================
